---------------------------- MODULE Spec2Model ----------------------------
(***************************************************************************)
(* A model of the hand-written logic of the ML-workflows notebooks:        *)
(*   - hashing_frequency / hf        (visualisation notebook)              *)
(*   - f1_score, fbeta_score         (02-evaluating-models)                *)
(*   - model_accuracy                (02-evaluating-models)                *)
(*   - OverfittingSpamModel          (02-evaluating-models)                *)
(*                                                                         *)
(* Floating-point numbers are modelled as exact rationals <<n, d>> in      *)
(* lowest terms with d > 0; numpy's two non-finite results are <<0, 0>>    *)
(* (NaN) and <<1, 0>> (inf).  Rounding is not modelled.                    *)
(* A Python str is a sequence of one-character strings.                    *)
(***************************************************************************)
EXTENDS Integers, Sequences, FiniteSets, TLC

VARIABLES
    pc,               \* "idle" | "ready" | "done": position of the modelled call
    vecsize,          \* hashing_frequency: the vecsize argument
    h,                \* hashing_frequency: the hash function argument
    words,            \* hf: the words argument, [isStr, val]
    hfOut,            \* hf: the outcome of the call
    actual_values,    \* f1_score / fbeta_score argument
    predicted_values, \* f1_score / fbeta_score argument
    beta,             \* fbeta_score argument
    positive_label,   \* f1_score / fbeta_score argument
    f1Out,            \* outcome of f1_score
    fbetaOut,         \* outcome of fbeta_score
    textHash,         \* the builtin hash on the texts of this process
    osm,              \* the OverfittingSpamModel object: [legit, spam]
    ssm,              \* the SensitiveSpamModel object: [legit, spam]
    fitted,           \* history: the rows passed to osm.fit so far
    df,               \* model_accuracy: the df argument
    call,             \* the last call on the model: [op, arg, out]
    data,             \* the data frame of the shingling cells: rows [text, shingles]
    a_vectors,        \* the array a: the hashing-frequency vectors of the rows of data
    features,         \* model training: the rows read from data/features.parquet
    train,            \* model training: the rows the model is fitted on
    test,             \* model training: the rows held out
    df_train,         \* drift: the training rows of its split of df
    df_test,          \* drift: the testing rows of its split of df
    seeded            \* the permutation a RandomState seeded with 43 draws

vars == <<pc, vecsize, h, words, hfOut, actual_values, predicted_values, beta,
          positive_label, f1Out, fbetaOut, textHash, osm, ssm, fitted, df, call,
          data, a_vectors, features, train, test, df_train, df_test, seeded>>

hfVars == <<vecsize, h, words, hfOut>>
metricVars == <<actual_values, predicted_values, beta, positive_label, f1Out, fbetaOut>>
modelVars == <<textHash, osm, ssm, fitted, df, call>>
shingleVars == <<data, a_vectors>>
splitVars == <<features, train, test, df_train, df_test, seeded>>

-----------------------------------------------------------------------------
(* Bounds of the model *)

MaxLen == 3          \* longest token list given to hf
MaxStrLen == 3       \* longest str given to hf
MaxHash == 1         \* hash values of tokens range over -1 .. MaxHash
MaxVecSize == 3      \* largest vecsize
WideVecSize == 8     \* the vecsize of the calls on the four-token list
MaxValues == 4       \* longest list of actual or predicted values
MaxBetaNum == 2      \* beta ranges over the fractions n / d with
MaxBetaDen == 2      \*   n in 0 .. MaxBetaNum and d in 1 .. MaxBetaDen
MaxTextHash == 1     \* hash values of texts range over 0 .. MaxTextHash
MaxRows == 2         \* most rows of a data frame
WordBits == 10       \* letters of a word of a long text
MaxDocLen == 5       \* longest text of a row of data
MaxTxtLen == 4       \* longest txt given to count_frequency and count_existence
MaxMaxLen == 3       \* MAX_LEN ranges over 0 .. MaxMaxLen and the two defaults
MaxDocs == 4         \* most rows of the training data that is split
MaxWordLen == 3      \* longest word given to caps
MaxSummaryLen == 4   \* longest document of which the upper_case summary is taken
MaxK == 3            \* the k of doc2shingles ranges over 0 .. MaxK and the notebook's 4

-----------------------------------------------------------------------------
(* Numbers *)

Abs(x) == IF x < 0 THEN 0 - x ELSE x

Min(a, b) == IF a <= b THEN a ELSE b

RECURSIVE GCD(_, _)
GCD(a, b) == IF b = 0 THEN a ELSE GCD(b, a % b)

NaN == <<0, 0>>
Inf == <<1, 0>>

\* the float with value n / d, d > 0
Rat(n, d) == LET g == GCD(Abs(n), d) IN <<n \div g, d \div g>>

\* float(n) for an int n
Float(n) == <<n, 1>>

IsFinite(x) == x[2] # 0

RatAdd(x, y) == Rat(x[1] * y[2] + y[1] * x[2], x[2] * y[2])
RatMul(x, y) == Rat(x[1] * y[1], x[2] * y[2])

\* x / y for finite x >= 0 and y > 0
RatDiv(x, y) == Rat(x[1] * y[2], x[2] * y[1])

\* numpy.float64 division of finite non-negative numbers: no exception is raised,
\* 0.0 / 0.0 is nan and x / 0.0 is inf (a RuntimeWarning is printed)
NpDiv(x, y) ==
    IF y[1] = 0 THEN (IF x[1] = 0 THEN NaN ELSE Inf) ELSE RatDiv(x, y)

-----------------------------------------------------------------------------
(* Outcomes of a call *)

NoValue == <<>>

NotCalled == [kind |-> "none", val |-> NoValue]

Return(v) == [kind |-> "return", val |-> v]

\* Python's float division by zero raises
ZeroDivisionError == [kind |-> "ZeroDivisionError", val |-> NoValue]

-----------------------------------------------------------------------------
(* hashing_frequency *)

Space == " "

The == <<"t", "h", "e">>
Quick == <<"q", "u", "i", "c", "k">>
Brown == <<"b", "r", "o", "w", "n">>
Fox == <<"f", "o", "x">>

\* the terms of the token lists
Tokens == {The, Quick, Brown, Fox}

\* the characters of the strs
Chars == {"a", "b", Space}

HashVals == (0 - 1) .. MaxHash

VecSizes == 1 .. MaxVecSize

RECURSIVE SeqsUpTo(_, _)
SeqsUpTo(S, n) ==
    IF n = 0 THEN {<<>>}
    ELSE LET shorter == SeqsUpTo(S, n - 1)
         IN  shorter \cup {Append(s, x) : s \in {t \in shorter : Len(t) = n - 1}, x \in S}

\* words.split(" "): one part per maximal run between single spaces, empty parts kept
RECURSIVE Split(_)
Split(s) ==
    IF \A i \in 1..Len(s) : s[i] # Space THEN <<s>>
    ELSE LET i == CHOOSE k \in 1..Len(s) :
                     s[k] = Space /\ \A j \in 1..(k - 1) : s[j] # Space
         IN  <<SubSeq(s, 1, i - 1)>> \o Split(SubSeq(s, i + 1, Len(s)))

\* the list hf iterates over: a str is split, a list is taken as it is
Terms(w) == IF w.isStr THEN Split(w.val) ELSE w.val

Range(s) == {s[i] : i \in 1..Len(s)}

\* the sequence s with all its entries computed
Entries(s) == SubSeq(s, 1, Len(s))

\* np.zeros(vecsize)
Zeros(n) == [i \in 1..n |-> Float(0)]

\* mutant: the bucket is the remainder truncated towards zero, made positive
RECURSIVE CountTerms_AbsBucket(_, _, _, _)
CountTerms_AbsBucket(result, terms, vs, hh) ==
    IF Len(terms) = 0 THEN result
    ELSE LET i == (Abs(hh[Head(terms)]) % vs) + 1
         IN  CountTerms_AbsBucket([result EXCEPT ![i] = RatAdd(@, Float(1))],
                                  Tail(terms), vs, hh)

\* mutant: the loop stops one term early
RECURSIVE CountTerms_SkipsLast(_, _, _, _)
CountTerms_SkipsLast(result, terms, vs, hh) ==
    IF Len(terms) <= 1 THEN result
    ELSE LET i == (hh[Head(terms)] % vs) + 1
         IN  CountTerms_SkipsLast([result EXCEPT ![i] = RatAdd(@, Float(1))],
                                  Tail(terms), vs, hh)

\* mutant: a bucket is set to one, not incremented
RECURSIVE CountTerms_SetsOne(_, _, _, _)
CountTerms_SetsOne(result, terms, vs, hh) ==
    IF Len(terms) = 0 THEN result
    ELSE LET i == (hh[Head(terms)] % vs) + 1
         IN  CountTerms_SetsOne([result EXCEPT ![i] = Float(1)], Tail(terms), vs, hh)

\* for term in words: result[h(term) % vecsize] += 1.0     (result[i] is at i + 1)
RECURSIVE CountTerms(_, _, _, _)
CountTerms(result, terms, vs, hh) ==
    IF Len(terms) = 0 THEN result
    ELSE LET i == (hh[Head(terms)] % vs) + 1
         IN  CountTerms([result EXCEPT ![i] = RatAdd(@, Float(1))], Tail(terms), vs, hh)

\* sum(result): 0 + result[0] + ... + result[n - 1]
RECURSIVE SumFirst(_, _)
SumFirst(result, n) ==
    IF n = 0 THEN Float(0) ELSE RatAdd(SumFirst(result, n - 1), result[n])

Sum(result) == SumFirst(result, Len(result))

\* mutant: the counts are divided by the number of buckets, not by their sum
hashing_frequency_DivByLen(vs, hh, w) ==
    LET result == CountTerms(Zeros(vs), Terms(w), vs, hh)
    IN  Return([i \in 1..vs |-> NpDiv(result[i], Float(vs))])

\* hashing_frequency(vecsize, h)(words)
hashing_frequency(vs, hh, w) ==
    LET result == CountTerms(Zeros(vs), Terms(w), vs, hh)
        total == Sum(result)
    IN  Return([i \in 1..vs |-> NpDiv(result[i], total)])

\* the steps as the notebook describes them: the count of each distinct shingle,
\* the frequency of each, and the vector that gets every frequency at the bucket
\* of its shingle
ShingleCounts(terms) ==
    [t \in Range(terms) |-> Cardinality({i \in 1..Len(terms) : terms[i] = t})]

ShingleFrequencies(terms) ==
    [t \in Range(terms) |-> RatDiv(Float(ShingleCounts(terms)[t]), Float(Len(terms)))]

RECURSIVE SumOver(_, _)
SumOver(S, f) ==
    IF S = {} THEN Float(0)
    ELSE LET t == CHOOSE x \in S : TRUE
         IN  RatAdd(f[t], SumOver(S \ {t}, f))

LogicalEncoding(vs, hh, terms) ==
    LET freq == ShingleFrequencies(terms)
    IN  [i \in 1..vs |-> SumOver({t \in Range(terms) : (hh[t] % vs) + 1 = i}, freq)]

\* the k of doc2shingles(4)
ShingleLength == 4

\* doc2shingles(k)(doc): [doc[i:i + k] for i in range(len(doc) - k + 1)]
\* s[lo:hi] for 0 <= lo and 0 <= hi: both ends are cut to len(s)
PySlice(s, lo, hi) == SubSeq(s, Min(lo, Len(s)) + 1, Min(hi, Len(s)))

\* mutant: the last start position is left out
doc2shingles_DropsLast(k, doc) ==
    Entries([i \in 1..(Len(doc) - k) |-> PySlice(doc, i - 1, i - 1 + k)])

doc2shingles(k, doc) ==
    Entries([i \in 1..(Len(doc) - k + 1) |-> PySlice(doc, i - 1, i - 1 + k)])

\* the lists of terms, and the space-delimited strs, given as words
ListInputs == {[isStr |-> FALSE, val |-> s] : s \in SeqsUpTo(Tokens, MaxLen)}
StrInputs == {[isStr |-> TRUE, val |-> s] : s \in SeqsUpTo(Chars, MaxStrLen)}

-----------------------------------------------------------------------------
(* f1_score and fbeta_score *)

Labels == {"legitimate", "spam"}

Betas == {Rat(n, d) : n \in 0..MaxBetaNum, d \in 1..MaxBetaDen}

\* zip(actual_values, predicted_values): as long as the shorter of the two
Zip(a, b) == [i \in 1..Min(Len(a), Len(b)) |-> <<a[i], b[i]>>]

\* len([v for v in actual_values if v == positive_label])
actual_positives(av, pl) == Cardinality({i \in 1..Len(av) : av[i] = pl})

\* mutant: a pair counts as soon as its actual value is the positive label
true_positives_ActualOnly(av, pv, pl) ==
    LET pairs == Zip(av, pv)
    IN  Cardinality({i \in 1..Len(pairs) : pairs[i][1] = pl})

\* len([t for t in zip(actual_values, predicted_values) if t[0] == t[1] == positive_label])
true_positives(av, pv, pl) ==
    LET pairs == Zip(av, pv)
    IN  Cardinality({i \in 1..Len(pairs) : pairs[i][1] = pairs[i][2] /\ pairs[i][2] = pl})

\* len([v for v in predicted_values if v == positive_label])
predicted_positives(pv, pl) == Cardinality({i \in 1..Len(pv) : pv[i] = pl})

\* mutant: the arithmetic mean of precision and recall
f1_score_ArithmeticMean(av, pv, pl) ==
    LET ap == Float(actual_positives(av, pl))
        tp == Float(true_positives(av, pv, pl))
        pp == Float(predicted_positives(pv, pl))
    IN  IF pp = Float(0) THEN ZeroDivisionError
        ELSE IF ap = Float(0) THEN ZeroDivisionError
        ELSE LET precision == RatDiv(tp, pp)
                 recall == RatDiv(tp, ap)
             IN  IF RatAdd(precision, recall) = Float(0) THEN ZeroDivisionError
                 ELSE Return(RatDiv(RatAdd(precision, recall), Float(2)))

\* mutant: a score of 0.0 instead of an error when nothing is predicted positive
f1_score_ZeroWhenNonePredicted(av, pv, pl) ==
    LET ap == Float(actual_positives(av, pl))
        tp == Float(true_positives(av, pv, pl))
        pp == Float(predicted_positives(pv, pl))
    IN  IF pp = Float(0) THEN Return(Float(0))
        ELSE IF ap = Float(0) THEN ZeroDivisionError
        ELSE LET precision == RatDiv(tp, pp)
                 recall == RatDiv(tp, ap)
             IN  IF RatAdd(precision, recall) = Float(0) THEN ZeroDivisionError
                 ELSE Return(RatMul(Float(2),
                          RatDiv(RatMul(precision, recall), RatAdd(precision, recall))))

\* mutant: the harmonic mean without its factor 2
f1_score_NoFactor(av, pv, pl) ==
    LET ap == Float(actual_positives(av, pl))
        tp == Float(true_positives(av, pv, pl))
        pp == Float(predicted_positives(pv, pl))
    IN  IF pp = Float(0) THEN ZeroDivisionError
        ELSE IF ap = Float(0) THEN ZeroDivisionError
        ELSE LET precision == RatDiv(tp, pp)
                 recall == RatDiv(tp, ap)
             IN  IF RatAdd(precision, recall) = Float(0) THEN ZeroDivisionError
                 ELSE Return(RatDiv(RatMul(precision, recall), RatAdd(precision, recall)))

\* The three counts are Python floats: every division by 0.0 raises.
\* mutant: a score of zero is returned when precision and recall are both zero
f1_score_ZeroWhenNoTruePositive(av, pv, pl) ==
    LET ap == Float(actual_positives(av, pl))
        tp == Float(true_positives(av, pv, pl))
        pp == Float(predicted_positives(pv, pl))
    IN  IF pp = Float(0) THEN ZeroDivisionError
        ELSE IF ap = Float(0) THEN ZeroDivisionError
        ELSE LET precision == RatDiv(tp, pp)
                 recall == RatDiv(tp, ap)
             IN  IF RatAdd(precision, recall) = Float(0) THEN Return(Float(0))
                 ELSE Return(RatMul(Float(2),
                          RatDiv(RatMul(precision, recall), RatAdd(precision, recall))))

f1_score(av, pv, pl) ==
    LET ap == Float(actual_positives(av, pl))
        tp == Float(true_positives(av, pv, pl))
        pp == Float(predicted_positives(pv, pl))
    IN  IF pp = Float(0) THEN ZeroDivisionError
        ELSE IF ap = Float(0) THEN ZeroDivisionError
        ELSE LET precision == RatDiv(tp, pp)
                 recall == RatDiv(tp, ap)
             IN  IF RatAdd(precision, recall) = Float(0) THEN ZeroDivisionError
                 ELSE Return(RatMul(Float(2),
                          RatDiv(RatMul(precision, recall), RatAdd(precision, recall))))

\* mutant: precision is weighted by beta, not by beta * beta
fbeta_score_BetaNotSquared(av, pv, b, pl) ==
    LET ap == Float(actual_positives(av, pl))
        tp == Float(true_positives(av, pv, pl))
        pp == Float(predicted_positives(pv, pl))
    IN  IF pp = Float(0) THEN ZeroDivisionError
        ELSE IF ap = Float(0) THEN ZeroDivisionError
        ELSE LET precision == RatDiv(tp, pp)
                 recall == RatDiv(tp, ap)
                 weighted == RatAdd(RatMul(b, precision), recall)
             IN  IF weighted = Float(0) THEN ZeroDivisionError
                 ELSE Return(RatMul(RatAdd(Float(1), RatMul(b, b)),
                          RatDiv(RatMul(precision, recall), weighted)))

\* mutant: beta * beta weights recall, not precision
fbeta_score_WeightsRecall(av, pv, b, pl) ==
    LET ap == Float(actual_positives(av, pl))
        tp == Float(true_positives(av, pv, pl))
        pp == Float(predicted_positives(pv, pl))
    IN  IF pp = Float(0) THEN ZeroDivisionError
        ELSE IF ap = Float(0) THEN ZeroDivisionError
        ELSE LET precision == RatDiv(tp, pp)
                 recall == RatDiv(tp, ap)
                 weighted == RatAdd(RatMul(RatMul(b, b), recall), precision)
             IN  IF weighted = Float(0) THEN ZeroDivisionError
                 ELSE Return(RatMul(RatAdd(Float(1), RatMul(b, b)),
                          RatDiv(RatMul(precision, recall), weighted)))

fbeta_score(av, pv, b, pl) ==
    LET ap == Float(actual_positives(av, pl))
        tp == Float(true_positives(av, pv, pl))
        pp == Float(predicted_positives(pv, pl))
    IN  IF pp = Float(0) THEN ZeroDivisionError
        ELSE IF ap = Float(0) THEN ZeroDivisionError
        ELSE LET precision == RatDiv(tp, pp)
                 recall == RatDiv(tp, ap)
                 weighted == RatAdd(RatMul(RatMul(b, b), precision), recall)
             IN  IF weighted = Float(0) THEN ZeroDivisionError
                 ELSE Return(RatMul(RatAdd(Float(1), RatMul(b, b)),
                          RatDiv(RatMul(precision, recall), weighted)))

\* The four tallies of a list of (actual, predicted) pairs for a positive label
TruePositive(av, pv, pl) ==
    Cardinality({i \in 1..Min(Len(av), Len(pv)) : av[i] = pl /\ pv[i] = pl})
TrueNegative(av, pv, pl) ==
    Cardinality({i \in 1..Min(Len(av), Len(pv)) : av[i] # pl /\ pv[i] # pl})
FalsePositive(av, pv, pl) ==
    Cardinality({i \in 1..Min(Len(av), Len(pv)) : av[i] # pl /\ pv[i] = pl})
FalseNegative(av, pv, pl) ==
    Cardinality({i \in 1..Min(Len(av), Len(pv)) : av[i] = pl /\ pv[i] # pl})

-----------------------------------------------------------------------------
(* OverfittingSpamModel and model_accuracy *)

Texts == {<<"a">>, <<"b">>, <<"a", "b">>}

Rows == [label : Labels, text : Texts]

DataFrames == SeqsUpTo(Rows, MaxRows)

\* OverfittingSpamModel.__init__
NewModel == [class |-> "OverfittingSpamModel", legit |-> {}, spam |-> {}]

\* hash(text)
hash(text) == textHash[text]

\* OverfittingSpamModel.fit: the rows of df from row k on
RECURSIVE FitFrom(_, _, _)
FitFrom(m, d, k) ==
    IF k > Len(d) THEN m
    ELSE IF d[k].label = "legitimate"
         THEN FitFrom([m EXCEPT !.legit = @ \cup {hash(d[k].text)}], d, k + 1)
         ELSE FitFrom([m EXCEPT !.spam = @ \cup {hash(d[k].text)}], d, k + 1)

\* mutant: the first row of df is not memorised
fit_FromSecondRow(m, d) == FitFrom(m, d, 2)

\* mutant: fit forgets what the model memorised before
fit_StartsAfresh(m, d) == FitFrom([m EXCEPT !.legit = {}, !.spam = {}], d, 1)

fit(m, d) == FitFrom(m, d, 1)

\* the rows of a training set, in some order
RECURSIVE SeqOf(_)
SeqOf(S) ==
    IF S = {} THEN <<>>
    ELSE LET r == CHOOSE x \in S : TRUE IN <<r>> \o SeqOf(S \ {r})

\* mutant: the parity test of the fallback is inverted
predict_OddIsLegitimate(m, text) ==
    IF hash(text) \in m.legit THEN "legitimate"
    ELSE IF hash(text) \in m.spam THEN "spam"
    ELSE IF Len(text) % 2 = 1 THEN "legitimate" ELSE "spam"

\* OverfittingSpamModel.predict
predict(m, text) ==
    IF hash(text) \in m.legit THEN "legitimate"
    ELSE IF hash(text) \in m.spam THEN "spam"
    ELSE IF Len(text) % 2 = 0 THEN "legitimate" ELSE "spam"

-----------------------------------------------------------------------------
(* The SensitiveSpamModel *)

\* the sizes of the two vocabularies: top_legit_words[:100], top_spam_words[:1000]
LegitVocabularySize == 100
SpamVocabularySize == 1000

\* the characters \w matches, among those of the texts
WordChars ==
    {"a", "b", "c", "A", "B", "o", "t", "e", "h", "i", "p", "s", "4", "2"}

IsWordChar(c) == c \in WordChars

LowerChar(c) == IF c = "A" THEN "a" ELSE IF c = "B" THEN "b" ELSE c

\* str.lower
RECURSIVE Lower(_)
Lower(s) ==
    IF Len(s) = 0 THEN <<>>
    ELSE <<LowerChar(s[1])>> \o Lower(SubSeq(s, 2, Len(s)))

\* re.split(r"\W+", s): the maximal runs of word characters of s in their
\* order, with an empty piece in front when s starts with another character
\* and an empty piece behind when s ends with one; the empty string has the
\* one piece ""
ReSplit(s) ==
    LET n == Len(s)
        IsStart(p) == IsWordChar(s[p]) /\ (p = 1 \/ ~IsWordChar(s[p - 1]))
        starts == SelectSeq(Entries([p \in 1..n |-> p]), IsStart)
        EndOf(p) == CHOOSE q \in p..n :
                        /\ \A r \in p..q : IsWordChar(s[r])
                        /\ (q = n \/ ~IsWordChar(s[q + 1]))
        front == IF n > 0 /\ ~IsWordChar(s[1]) THEN << <<>> >> ELSE <<>>
        behind == IF n > 0 /\ ~IsWordChar(s[n]) THEN << <<>> >> ELSE <<>>
    IN  IF n = 0 THEN << <<>> >>
        ELSE front
             \o [k \in 1..Len(starts) |-> SubSeq(s, starts[k], EndOf(starts[k]))]
             \o behind

\* a defaultdict(lambda: 0) is the sequence of its items in insertion order;
\* target[w] += 1
Increment(target, w) ==
    IF \E i \in 1..Len(target) : target[i].word = w
    THEN LET i == CHOOSE i \in 1..Len(target) : target[i].word = w
         IN  [target EXCEPT ![i].count = @ + 1]
    ELSE Append(target, [word |-> w, count |-> 1])

\* the inner loop of fit over the pieces lo .. hi of one text: the pieces of
\* the first half, then (the test makes the first half be evaluated first)
\* the pieces of the second half
RECURSIVE CountWordsIn(_, _, _, _)
CountWordsIn(target, ws, lo, hi) ==
    IF lo > hi THEN target
    ELSE IF lo = hi
         THEN IF Len(ws[lo]) > 0 THEN Increment(target, Lower(ws[lo])) ELSE target
    ELSE LET mid == (lo + hi) \div 2
             first == CountWordsIn(target, ws, lo, mid)
         IN  IF Len(first) = 0 THEN CountWordsIn(<<>>, ws, mid + 1, hi)
             ELSE CountWordsIn(first, ws, mid + 1, hi)

\* for word in re.split(r"\W+", text): if len(word) > 0: target[word.lower()] += 1
CountWords(target, text) ==
    LET ws == ReSplit(text) IN CountWordsIn(target, ws, 1, Len(ws))

\* the outer loop of fit over the rows of df, from row k on
RECURSIVE CountRowsFrom(_, _, _)
CountRowsFrom(c, d, k) ==
    IF k > Len(d) THEN c
    ELSE IF d[k].label = "legitimate"
         THEN CountRowsFrom([c EXCEPT !.legit_words = CountWords(@, d[k].text)], d, k + 1)
         ELSE CountRowsFrom([c EXCEPT !.spam_words = CountWords(@, d[k].text)], d, k + 1)

\* dict.keys()
Keys(target) == {target[i].word : i \in 1..Len(target)}

\* del target[word] for every word of common
Without(target, common) ==
    LET Kept(item) == item.word \notin common IN SelectSeq(target, Kept)

\* mutant: the items are sorted by rising count
SortedByCount_Ascending(items) ==
    LET Before(j, i) ==
            \/ items[j].count < items[i].count
            \/ items[j].count = items[i].count /\ j < i
        place == Entries([i \in 1..Len(items) |->
                             1 + Cardinality({j \in 1..Len(items) : Before(j, i)})])
    IN  Entries([p \in 1..Len(items) |->
                    items[CHOOSE i \in 1..Len(items) : place[i] = p]])

\* sorted(items, key=lambda kv: kv[1], reverse=True): a stable sort, so an
\* item comes behind the items of greater count and behind the earlier items
\* of equal count
SortedByCount(items) ==
    LET Before(j, i) ==
            \/ items[j].count > items[i].count
            \/ items[j].count = items[i].count /\ j < i
        place == Entries([i \in 1..Len(items) |->
                             1 + Cardinality({j \in 1..Len(items) : Before(j, i)})])
    IN  Entries([p \in 1..Len(items) |->
                    items[CHOOSE i \in 1..Len(items) : place[i] = p]])

\* s[:n]
Take(s, n) == SubSeq(s, 1, Min(n, Len(s)))

\* ssm = SensitiveSpamModel()
NewSensitiveModel == [class |-> "SensitiveSpamModel", legit |-> {}, spam |-> {}]

\* SensitiveSpamModel.fit
SensitiveSpamModel_fit(m, d) ==
    LET c == CountRowsFrom([legit_words |-> <<>>, spam_words |-> <<>>], d, 1)
        common == Keys(c.legit_words) \cap Keys(c.spam_words)
        legit_words == Without(c.legit_words, common)
        spam_words == Without(c.spam_words, common)
        top_legit_words == SortedByCount(legit_words)
        top_spam_words == SortedByCount(spam_words)
    IN  [m EXCEPT !.legit = Keys(Take(top_legit_words, LegitVocabularySize)),
                  !.spam = Keys(Take(top_spam_words, SpamVocabularySize))]

\* the loop of predict over the pieces of the text: legit_score counts the
\* pieces found in self.legit, spam_score the other pieces found in self.spam
Scores(m, ws) ==
    [legit_score |-> Cardinality({k \in 1..Len(ws) : ws[k] \in m.legit}),
     spam_score |-> Cardinality({k \in 1..Len(ws) : ws[k] \notin m.legit /\ ws[k] \in m.spam})]

\* mutant: a tie is decided for legitimate
SensitiveSpamModel_predict_TieIsLegitimate(m, text) ==
    LET s == Scores(m, ReSplit(text))
    IN  IF s.legit_score >= s.spam_score THEN "legitimate" ELSE "spam"

\* SensitiveSpamModel.predict
SensitiveSpamModel_predict(m, text) ==
    LET s == Scores(m, ReSplit(text))
    IN  IF s.legit_score > s.spam_score THEN "legitimate" ELSE "spam"

-----------------------------------------------------------------------------
(* Evaluation of a classifier *)

\* osm.predict(text): the predict method of the class of the object
predict_of(m, text) ==
    IF m.class = "SensitiveSpamModel" THEN SensitiveSpamModel_predict(m, text)
    ELSE predict(m, text)

\* mutant: the rows that were predicted wrongly are the ones counted
model_accuracy_ShareOfIncorrect(m, d) ==
    LET correct == Cardinality({i \in 1..Len(d) : d[i].label = predict_of(m, d[i].text)})
        incorrect == Cardinality({i \in 1..Len(d) : d[i].label # predict_of(m, d[i].text)})
    IN  IF correct + incorrect = 0 THEN Return(Float(100))
        ELSE Return(RatMul(RatDiv(Float(incorrect), Float(correct + incorrect)), Float(100)))

\* mutant: the share of correct rows is not scaled to a percentage
model_accuracy_NotScaled(m, d) ==
    LET correct == Cardinality({i \in 1..Len(d) : d[i].label = predict_of(m, d[i].text)})
        incorrect == Cardinality({i \in 1..Len(d) : d[i].label # predict_of(m, d[i].text)})
    IN  IF correct + incorrect = 0 THEN Return(Float(100))
        ELSE Return(RatDiv(Float(correct), Float(correct + incorrect)))

\* model_accuracy(osm, df)
model_accuracy(m, d) ==
    LET correct == Cardinality({i \in 1..Len(d) : d[i].label = predict_of(m, d[i].text)})
        incorrect == Cardinality({i \in 1..Len(d) : d[i].label # predict_of(m, d[i].text)})
    IN  IF correct + incorrect = 0 THEN Return(Float(100))
        ELSE Return(RatMul(RatDiv(Float(correct), Float(correct + incorrect)), Float(100)))

\* true_and_predicted(df, model)
true_and_predicted(d, m) ==
    << Entries([i \in 1..Len(d) |-> d[i].label]),
       Entries([i \in 1..Len(d) |-> predict_of(m, d[i].text)]) >>

\* the sizes of the two parts of the unbalanced sample
LegitSampleSize == 2000
SpamSampleSize == 18000

\* unbalanced = pd.DataFrame.append(legit_sample, spam_sample): the legitimate
\* rows, then the spam rows
UnbalancedSample ==
    [i \in 1..(LegitSampleSize + SpamSampleSize) |->
        IF i <= LegitSampleSize THEN [label |-> "legitimate", text |-> <<"A">>]
        ELSE [label |-> "spam", text |-> <<>>]]

\* the texts of the training sets and of the predictions
SsmTexts ==
    { <<"a", " ", "b">>, <<"A">>, <<"b", ",", " ", "b">>, <<" ", "c">>,
      <<"B", " ", "c">>, <<"a", " ", "b", " ", "c">>, <<>> }

SsmRows == [label : Labels, text : SsmTexts]

SsmDataFrames == SeqsUpTo(SsmRows, MaxRows)

\* training sets of one legitimate row and one spam row
TwoSidedFrames ==
    {<<a, b>> : a \in {r \in SsmRows : r.label = "legitimate"},
                b \in {r \in SsmRows : r.label = "spam"}}

\* letter j (from 0) of word number i of a long text: binary digit j of i,
\* a for 0 and b for 1
BigLetter(i, j) == IF (i \div (2 ^ j)) % 2 = 0 THEN "a" ELSE "b"

\* word number i of a long text
BigWord(i) == [j \in 1..WordBits |-> BigLetter(i, j - 1)]

\* the text of the words number 1 to n, one space between two words
BigText(n) ==
    [p \in 1..(n * (WordBits + 1) - 1) |->
        IF p % (WordBits + 1) = 0 THEN " "
        ELSE BigLetter((p - 1) \div (WordBits + 1) + 1, (p - 1) % (WordBits + 1))]

\* training sets whose legitimate text has one word more than the legit
\* vocabulary holds, the last word possibly twice, and whose spam text shares
\* a word with it or not; and a training set whose spam text has one word
\* more than the spam vocabulary holds, the last word twice
BigFrames ==
    LET n == LegitVocabularySize + 1
        m == SpamVocabularySize + 1
    IN  { << [label |-> "legitimate", text |-> BigText(n) \o again],
             [label |-> "spam", text |-> t] >> :
          again \in {<<>>, <<" ">> \o BigWord(n)},
          t \in {BigWord(1), <<"c">>} }
        \cup
        { << [label |-> "legitimate", text |-> <<"a", " ", "b">>],
             [label |-> "spam", text |-> BigText(m) \o <<" ">> \o BigWord(m)] >> }

-----------------------------------------------------------------------------
(* Values of the variables a specification does not use *)

IdleHf ==
    /\ vecsize = 1
    /\ h = <<>>
    /\ words = [isStr |-> FALSE, val |-> <<>>]
    /\ hfOut = NotCalled

IdleMetrics ==
    /\ actual_values = <<>>
    /\ predicted_values = <<>>
    /\ beta = Float(1)
    /\ positive_label = "spam"
    /\ f1Out = NotCalled
    /\ fbetaOut = NotCalled

IdleShingles ==
    /\ data = <<>>
    /\ a_vectors = NoValue

IdleSplit ==
    /\ features = <<>>
    /\ train = NoValue
    /\ test = NoValue
    /\ df_train = NoValue
    /\ df_test = NoValue
    /\ seeded = <<>>

IdleModel ==
    /\ textHash = <<>>
    /\ osm = NewModel
    /\ ssm = NewSensitiveModel
    /\ fitted = {}
    /\ df = <<>>
    /\ call = [op |-> "none", arg |-> NoValue, out |-> NoValue]

-----------------------------------------------------------------------------
(* The hashing encoder: one call of hashing_frequency(vecsize, h)(words) *)

InitHF ==
    /\ pc = "ready"
    /\ \/ /\ vecsize \in VecSizes
          /\ \/ words \in ListInputs
             \/ words \in StrInputs
          /\ h \in [Range(Terms(words)) -> HashVals]
       \/ /\ vecsize = WideVecSize
          /\ words = [isStr |-> FALSE, val |-> <<The, Quick, Brown, Fox>>]
          /\ h \in [Tokens -> 0..(WideVecSize - 1)]
    /\ hfOut = NotCalled
    /\ IdleMetrics
    /\ IdleModel
    /\ IdleShingles
    /\ IdleSplit

HfCall ==
    /\ pc = "ready"
    /\ pc' = "done"
    /\ hfOut' = hashing_frequency(vecsize, h, words)
    /\ UNCHANGED <<vecsize, h, words, metricVars, modelVars, shingleVars, splitVars>>

NextHF == HfCall

SpecHF == InitHF /\ [][NextHF]_vars

-----------------------------------------------------------------------------
(* The shingling cells: data["shingles"] and the array a of its vectors *)

DocChars == {"a", "b"}

Docs == SeqsUpTo(DocChars, MaxDocLen)

\* the shingles of all the texts of a frame
ShinglesOf(texts) ==
    UNION {Range(doc2shingles(ShingleLength, texts[i])) : i \in 1..Len(texts)}

InitShingles ==
    /\ pc = "ready"
    /\ \E d1 \in Docs, d2 \in Docs :
          /\ data = <<[text |-> d1], [text |-> d2]>>
          /\ h \in [ShinglesOf(<<d1, d2>>) -> HashVals]
    /\ vecsize \in VecSizes
    /\ a_vectors = NoValue
    /\ words = [isStr |-> FALSE, val |-> <<>>]
    /\ hfOut = NotCalled
    /\ IdleMetrics
    /\ IdleModel
    /\ IdleSplit

\* data["shingles"] = data["text"].apply(doc2shingles(4))
Shingle ==
    /\ pc = "ready"
    /\ pc' = "shingled"
    /\ data' = [i \in 1..Len(data) |->
                  [text |-> data[i].text,
                   shingles |-> doc2shingles(ShingleLength, data[i].text)]]
    /\ UNCHANGED <<a_vectors, hfVars, metricVars, modelVars, splitVars>>

\* mutant: every row is hashed with a hash function of its own
Encode_HashPerRow ==
    /\ pc = "shingled"
    /\ pc' = "encoded"
    /\ a_vectors' = [i \in 1..Len(data) |->
                       hashing_frequency(vecsize, [t \in DOMAIN h |-> h[t] + i],
                           [isStr |-> FALSE, val |-> data[i].shingles]).val]
    /\ UNCHANGED <<data, hfVars, metricVars, modelVars, splitVars>>

\* a = np.array([hashing_frequency(1024, hash)(v) for v in data["shingles"].values])
Encode ==
    /\ pc = "shingled"
    /\ pc' = "encoded"
    /\ a_vectors' = [i \in 1..Len(data) |->
                       hashing_frequency(vecsize, h,
                           [isStr |-> FALSE, val |-> data[i].shingles]).val]
    /\ UNCHANGED <<data, hfVars, metricVars, modelVars, splitVars>>

NextShingles == Shingle \/ Encode

SpecShingles == InitShingles /\ [][NextShingles]_vars

-----------------------------------------------------------------------------
(* count_frequency and count_existence *)

\* the defaults of MAX_LEN
FrequencyMaxLen == 7
ExistenceMaxLen == 15

\* for word in ...: idx = min(len(word), MAX_LEN); result[idx] += 1.0
RECURSIVE CountLengths(_, _, _, _)
CountLengths(result, ws, n, MAX_LEN) ==
    IF n > Len(ws) THEN result
    ELSE LET idx == Min(Len(ws[n]), MAX_LEN)
         IN  CountLengths([result EXCEPT ![idx + 1] = RatAdd(@, Float(1))],
                          ws, n + 1, MAX_LEN)

\* for word in ...: idx = min(len(word), MAX_LEN); result[idx] = 1.0
RECURSIVE MarkLengths(_, _, _, _)
MarkLengths(result, ws, n, MAX_LEN) ==
    IF n > Len(ws) THEN result
    ELSE LET idx == Min(Len(ws[n]), MAX_LEN)
         IN  MarkLengths([result EXCEPT ![idx + 1] = Float(1)], ws, n + 1, MAX_LEN)

count_frequency(txt, MAX_LEN) == CountLengths(Zeros(MAX_LEN + 1), ReSplit(txt), 1, MAX_LEN)

count_existence(txt, MAX_LEN) == MarkLengths(Zeros(MAX_LEN + 1), ReSplit(txt), 1, MAX_LEN)

-----------------------------------------------------------------------------
(* caps and the upper_case summary *)

UpperChars == {"A", "B"}

LowerChars == {"a", "b", "c", "o", "t", "e", "h", "i", "p", "s"}

\* the punctuation that strip_punct removes
PunctChars ==
    {"!", ".", ">", "<", ":", ";", "'", ",", "@", "#", "~", "{", "}", "[", "]", "-",
     "_", "+", "=", "£", "$", "%", "^", "&", "(", ")", "?"}

WhiteChars == {" "}

\* str.islower: there is a cased character and no cased character is upper case
islower(word) ==
    /\ \E i \in 1..Len(word) : word[i] \in UpperChars \cup LowerChars
    /\ \A i \in 1..Len(word) : word[i] \notin UpperChars

caps(word) == ~islower(word)

\* strip_punct(doc): the doc without its punctuation, and the number of
\* characters taken out
strip_punct(doc) ==
    LET NotPunct(c) == c \notin PunctChars
        kept == SelectSeq(doc, NotPunct)
    IN  <<kept, Len(doc) - Len(kept)>>

\* str.split(): the runs of characters that are not whitespace, in their order
PySplit(s) ==
    LET IsStart(p) == s[p] \notin WhiteChars /\ (p = 1 \/ s[p - 1] \in WhiteChars)
        starts == SelectSeq(Entries([p \in 1..Len(s) |-> p]), IsStart)
        EndOf(p) == CHOOSE e \in p..Len(s) :
                        /\ \A q \in p..e : s[q] \notin WhiteChars
                        /\ (e = Len(s) \/ s[e + 1] \in WhiteChars)
    IN  Entries([n \in 1..Len(starts) |-> SubSeq(s, starts[n], EndOf(starts[n]))])

\* df_summaries["upper_case"] of one document: the sum of caps over the rows of
\* its words, and NaN for a document that has no row
upper_case(doc) ==
    LET ws == PySplit(strip_punct(doc)[1])
    IN  IF Len(ws) = 0 THEN NaN ELSE Float(Len(SelectSeq(ws, caps)))

-----------------------------------------------------------------------------
(* The feature functions, each called once on an input of its own *)

QuickBrownFox ==
    <<"t", "h", "e", " ", "q", "u", "i", "c", "k", " ", "b", "r", "o", "w", "n", " ",
      "f", "o", "x", " ", "j", "u", "m", "p", "s", " ", "o", "v", "e", "r", " ",
      "t", "h", "e", " ", "l", "a", "z", "y", " ", "d", "o", "g">>

BobAteChips == <<"B", "o", "b", " ", "a", "t", "e", " ", "c", "h", "i", "p", "s">>

TxtChars == {"a", "B", " ", "."}

\* the txt arguments: the short strs, the example and the example as a sentence
Txts == SeqsUpTo(TxtChars, MaxTxtLen) \cup {BobAteChips, BobAteChips \o <<".">>}

MaxLens == (0..MaxMaxLen) \cup {FrequencyMaxLen, ExistenceMaxLen}

\* the characters of the words given to caps and of the summarised documents
CapsChars == {"a", "A", "4", "2"}

SummaryChars == {"a", "A", "4", " ", "."}

InitFeatures ==
    /\ pc = "ready"
    /\ IdleHf
    /\ IdleMetrics
    /\ IdleModel
    /\ IdleShingles
    /\ IdleSplit

\* doc2shingles(k)(doc)
KShingles(k, doc) ==
    /\ pc = "ready"
    /\ pc' = "done"
    /\ call' = [op |-> "doc2shingles", arg |-> [k |-> k, doc |-> doc],
                out |-> doc2shingles(k, doc)]
    /\ UNCHANGED <<textHash, osm, ssm, fitted, df, hfVars, metricVars, shingleVars, splitVars>>

\* count_frequency(txt, MAX_LEN)
CountFrequency(txt, MAX_LEN) ==
    /\ pc = "ready"
    /\ pc' = "done"
    /\ call' = [op |-> "count_frequency", arg |-> [txt |-> txt, MAX_LEN |-> MAX_LEN],
                out |-> count_frequency(txt, MAX_LEN)]
    /\ UNCHANGED <<textHash, osm, ssm, fitted, df, hfVars, metricVars, shingleVars, splitVars>>

\* count_existence(txt, MAX_LEN)
CountExistence(txt, MAX_LEN) ==
    /\ pc = "ready"
    /\ pc' = "done"
    /\ call' = [op |-> "count_existence", arg |-> [txt |-> txt, MAX_LEN |-> MAX_LEN],
                out |-> count_existence(txt, MAX_LEN)]
    /\ UNCHANGED <<textHash, osm, ssm, fitted, df, hfVars, metricVars, shingleVars, splitVars>>

\* caps(word)
Caps(word) ==
    /\ pc = "ready"
    /\ pc' = "done"
    /\ call' = [op |-> "caps", arg |-> word, out |-> caps(word)]
    /\ UNCHANGED <<textHash, osm, ssm, fitted, df, hfVars, metricVars, shingleVars,
                   splitVars>>

\* the upper_case column of df_summaries for one document
UpperCase(doc) ==
    /\ pc = "ready"
    /\ pc' = "done"
    /\ call' = [op |-> "upper_case", arg |-> doc, out |-> upper_case(doc)]
    /\ UNCHANGED <<textHash, osm, ssm, fitted, df, hfVars, metricVars, shingleVars,
                   splitVars>>

NextFeatures ==
    \/ \E k \in (0..MaxK) \cup {ShingleLength}, doc \in Docs \cup {QuickBrownFox} :
           KShingles(k, doc)
    \/ \E txt \in Txts, MAX_LEN \in MaxLens : CountFrequency(txt, MAX_LEN)
    \/ \E txt \in Txts, MAX_LEN \in MaxLens : CountExistence(txt, MAX_LEN)
    \/ \E word \in SeqsUpTo(CapsChars, MaxWordLen) : Caps(word)
    \/ \E doc \in SeqsUpTo(SummaryChars, MaxSummaryLen) : UpperCase(doc)

SpecFeatures == InitFeatures /\ [][NextFeatures]_vars

-----------------------------------------------------------------------------
(* The two splits: model training splits features, the drift notebook splits df *)

\* the orders in which a permutation of n rows can come out
Orders(n) == {p \in [1..n -> 1..n] : \A i, j \in 1..n : p[i] = p[j] => i = j}

\* model_selection.train_test_split(rows) with the default test_size: the rows
\* are taken in the order of a permutation, the first ceil(0.25 * n) of them are
\* the test rows and the others the train rows
train_test_split(rows, perm) ==
    LET n == Len(rows)
        n_test == (n + 3) \div 4
        n_train == n - n_test
    IN  [train |-> [i \in 1..n_train |-> rows[perm[n_test + i]]],
         test |-> [i \in 1..n_test |-> rows[perm[i]]]]

\* data/training.parquet and data/features.parquet hold one row for each document
InitSplit ==
    /\ pc = "ready"
    /\ \E n \in 2..MaxDocs :
          /\ features = [i \in 1..n |-> [index |-> i]]
          /\ df = [i \in 1..n |-> [index |-> i]]
          /\ seeded \in Orders(n)
    /\ train = NoValue
    /\ test = NoValue
    /\ df_train = NoValue
    /\ df_test = NoValue
    /\ textHash = <<>>
    /\ osm = NewModel
    /\ ssm = NewSensitiveModel
    /\ fitted = {}
    /\ call = [op |-> "none", arg |-> NoValue, out |-> NoValue]
    /\ IdleHf
    /\ IdleMetrics
    /\ IdleShingles

\* train, test = model_selection.train_test_split(features): no random_state,
\* the permutation is drawn from numpy's global generator, which is not seeded
ModelSplit ==
    /\ train = NoValue
    /\ \E perm \in Orders(Len(features)) :
          LET split == train_test_split(features, perm)
          IN  /\ train' = split.train
              /\ test' = split.test
    /\ pc' = IF df_train = NoValue THEN pc ELSE "done"
    /\ UNCHANGED <<features, df_train, df_test, seeded, hfVars, metricVars, modelVars,
                   shingleVars>>

\* df_train, df_test = model_selection.train_test_split(df, random_state=43)
DriftSplit ==
    /\ df_train = NoValue
    /\ LET split == train_test_split(df, seeded)
       IN  /\ df_train' = split.train
           /\ df_test' = split.test
    /\ pc' = IF train = NoValue THEN pc ELSE "done"
    /\ UNCHANGED <<features, train, test, seeded, hfVars, metricVars, modelVars,
                   shingleVars>>

NextSplit == ModelSplit \/ DriftSplit

SpecSplit == InitSplit /\ [][NextSplit]_vars

-----------------------------------------------------------------------------
(* The metrics: one call of f1_score and one of fbeta_score on the same values *)

InitMetrics ==
    /\ pc = "ready"
    /\ actual_values \in SeqsUpTo(Labels, MaxValues)
    /\ predicted_values \in SeqsUpTo(Labels, MaxValues)
    /\ beta \in Betas
    /\ positive_label \in Labels
    /\ f1Out = NotCalled
    /\ fbetaOut = NotCalled
    /\ IdleHf
    /\ IdleModel
    /\ IdleShingles
    /\ IdleSplit

F1Call ==
    /\ f1Out = NotCalled
    /\ f1Out' = f1_score(actual_values, predicted_values, positive_label)
    /\ pc' = IF fbetaOut = NotCalled THEN "ready" ELSE "done"
    /\ UNCHANGED <<actual_values, predicted_values, beta, positive_label, fbetaOut,
                   hfVars, modelVars, shingleVars, splitVars>>

FbetaCall ==
    /\ fbetaOut = NotCalled
    /\ fbetaOut' = fbeta_score(actual_values, predicted_values, beta, positive_label)
    /\ pc' = IF f1Out = NotCalled THEN "ready" ELSE "done"
    /\ UNCHANGED <<actual_values, predicted_values, beta, positive_label, f1Out,
                   hfVars, modelVars, shingleVars, splitVars>>

NextMetrics == F1Call \/ FbetaCall

SpecMetrics == InitMetrics /\ [][NextMetrics]_vars

-----------------------------------------------------------------------------
(* model_accuracy: one call on a model that fit has filled from a training set *)

InitAccuracy ==
    /\ pc = "ready"
    /\ textHash \in [Texts -> 0..MaxTextHash]
    /\ fitted \in SUBSET Rows
    /\ osm = fit(NewModel, SeqOf(fitted))
    /\ ssm = NewSensitiveModel
    /\ df \in DataFrames
    /\ call = [op |-> "none", arg |-> NoValue, out |-> NoValue]
    /\ IdleHf
    /\ IdleMetrics
    /\ IdleShingles
    /\ IdleSplit

ModelAccuracyCall ==
    /\ pc = "ready"
    /\ pc' = "done"
    /\ call' = [op |-> "model_accuracy", arg |-> NoValue, out |-> model_accuracy(osm, df)]
    /\ UNCHANGED <<textHash, osm, ssm, fitted, df, hfVars, metricVars, shingleVars, splitVars>>

NextAccuracy == ModelAccuracyCall

SpecAccuracy == InitAccuracy /\ [][NextAccuracy]_vars

-----------------------------------------------------------------------------
(* A session with one OverfittingSpamModel: osm = OverfittingSpamModel(),    *)
(* then calls of osm.fit and osm.predict in any order                        *)

Init ==
    /\ pc = "ready"
    /\ textHash \in [Texts -> 0..MaxTextHash]
    /\ osm = NewModel
    /\ ssm = NewSensitiveModel
    /\ fitted = {}
    /\ df = <<>>
    /\ call = [op |-> "none", arg |-> NoValue, out |-> NoValue]
    /\ IdleHf
    /\ IdleMetrics
    /\ IdleShingles
    /\ IdleSplit

Fit(d) ==
    /\ osm' = fit(osm, d)
    /\ fitted' = fitted \cup Range(d)
    /\ call' = [op |-> "fit", arg |-> NoValue, out |-> NoValue]
    /\ UNCHANGED <<pc, textHash, ssm, df, hfVars, metricVars, shingleVars, splitVars>>

\* mutant: predict memorises the text it was asked about as spam
Predict_MemorisesText(text) ==
    /\ call' = [op |-> "predict", arg |-> text, out |-> predict(osm, text)]
    /\ osm' = [osm EXCEPT !.spam = @ \cup {hash(text)}]
    /\ UNCHANGED <<pc, textHash, ssm, fitted, df, hfVars, metricVars, shingleVars, splitVars>>

Predict(text) ==
    /\ call' = [op |-> "predict", arg |-> text, out |-> predict(osm, text)]
    /\ UNCHANGED <<pc, textHash, osm, ssm, fitted, df, hfVars, metricVars, shingleVars, splitVars>>

Next ==
    \/ \E d \in DataFrames : Fit(d)
    \/ \E text \in Texts : Predict(text)

Spec == Init /\ [][Next]_vars

-----------------------------------------------------------------------------
(* A session with one SensitiveSpamModel: ssm = SensitiveSpamModel(), one    *)
(* call ssm.fit(df), and calls of ssm.predict before and after it            *)

InitSSM ==
    /\ pc = "ready"
    /\ textHash = <<>>
    /\ osm = NewModel
    /\ ssm = NewSensitiveModel
    /\ fitted = {}
    /\ df \in SsmDataFrames \cup BigFrames
    /\ call = [op |-> "none", arg |-> NoValue, out |-> NoValue]
    /\ IdleHf
    /\ IdleMetrics
    /\ IdleShingles
    /\ IdleSplit

SsmFit ==
    /\ pc = "ready"
    /\ ssm' = SensitiveSpamModel_fit(ssm, df)
    /\ pc' = "fitted"
    /\ call' = [op |-> "ssm.fit", arg |-> NoValue, out |-> NoValue]
    /\ UNCHANGED <<textHash, osm, fitted, df, hfVars, metricVars, shingleVars, splitVars>>

SsmPredict(text) ==
    /\ call' = [op |-> "ssm.predict", arg |-> text,
                out |-> SensitiveSpamModel_predict(ssm, text)]
    /\ UNCHANGED <<pc, textHash, osm, ssm, fitted, df, hfVars, metricVars, shingleVars, splitVars>>

NextSSM ==
    \/ SsmFit
    \/ \E text \in SsmTexts : SsmPredict(text)

SpecSSM == InitSSM /\ [][NextSSM]_vars

-----------------------------------------------------------------------------
(* A session with one classifier of either class: the calls of its methods   *)
(* and the calls of model_accuracy and true_and_predicted on it              *)

InitModels ==
    \/ Init
    \/ InitSSM /\ df \in TwoSidedFrames

\* the session is one with the OverfittingSpamModel: the texts are hashed
OverfittingSession == DOMAIN textHash # {}

\* the classifier of the session
Subject == IF OverfittingSession THEN osm ELSE ssm

\* the data frame the classifier is evaluated on: its training rows
EvalFrame == IF OverfittingSession THEN SeqOf(fitted) ELSE df

ModelAccuracy ==
    /\ call' = [op |-> "model_accuracy", arg |-> NoValue,
                out |-> model_accuracy(Subject, EvalFrame)]
    /\ UNCHANGED <<pc, textHash, osm, ssm, fitted, df, hfVars, metricVars, shingleVars, splitVars>>

TrueAndPredicted ==
    /\ call' = [op |-> "true_and_predicted", arg |-> NoValue,
                out |-> true_and_predicted(EvalFrame, Subject)]
    /\ UNCHANGED <<pc, textHash, osm, ssm, fitted, df, hfVars, metricVars, shingleVars, splitVars>>

NextModels ==
    \/ OverfittingSession /\ Next
    \/ ~OverfittingSession /\ NextSSM
    \/ ModelAccuracy
    \/ TrueAndPredicted

SpecModels == InitModels /\ [][NextModels]_vars

-----------------------------------------------------------------------------
(* model_accuracy on a SensitiveSpamModel: one call model_accuracy(ssm, df)  *)
(* on a model that is new or was fitted on a two-sided training set          *)

InitSsmAccuracy ==
    /\ pc = "ready"
    /\ textHash = <<>>
    /\ osm = NewModel
    /\ fitted = {}
    /\ \/ /\ \E d \in TwoSidedFrames \cup {<<>>} :
                ssm = SensitiveSpamModel_fit(NewSensitiveModel, d)
          /\ df \in SsmDataFrames
       \/ /\ ssm = NewSensitiveModel
          /\ df = UnbalancedSample
    /\ call = [op |-> "none", arg |-> NoValue, out |-> NoValue]
    /\ IdleHf
    /\ IdleMetrics
    /\ IdleShingles
    /\ IdleSplit

SsmAccuracyCall ==
    /\ pc = "ready"
    /\ pc' = "done"
    /\ call' = [op |-> "model_accuracy", arg |-> NoValue, out |-> model_accuracy(ssm, df)]
    /\ UNCHANGED <<textHash, osm, ssm, fitted, df, hfVars, metricVars, shingleVars, splitVars>>

NextSsmAccuracy == SsmAccuracyCall

SpecSsmAccuracy == InitSsmAccuracy /\ [][NextSsmAccuracy]_vars

-----------------------------------------------------------------------------
(* Properties of the hashing encoder *)

HfTerms == Terms(words)

\* the 0-based bucket of a term
Bucket(t) == h[t] % vecsize

\* entry i (0-based) of the returned vector
Entry(i) == hfOut.val[i + 1]

\* the sum of a vector of finite numbers, as numerator and denominator
RECURSIVE TotalFrom(_, _)
TotalFrom(vec, k) ==
    IF k > Len(vec) THEN <<0, 1>>
    ELSE LET x == vec[k]
             r == TotalFrom(vec, k + 1)
         IN  Rat(x[1] * r[2] + r[1] * x[2], x[2] * r[2])

TotalOf(vec) == TotalFrom(vec, 1)

\* the positions of the terms that fall into bucket i
PositionsIn(i) == {j \in 1..Len(HfTerms) : Bucket(HfTerms[j]) = i}

\* the rearrangements of a list
Rearrangements(s) ==
    {[i \in 1..Len(s) |-> s[p[i]]] : p \in Permutations(1..Len(s))}

\* C1: for a non-empty token sequence the encoder returns a vector of exactly
\* vecsize entries, all non-negative, that sum to 1; the bucket counts before
\* the normalisation sum to the number of tokens.
Thm_C1_NormalisedHistogram ==
    (pc = "done" /\ Len(HfTerms) > 0) =>
        /\ hfOut.kind = "return"
        /\ Len(hfOut.val) = vecsize
        /\ \A i \in 0..(vecsize - 1) : IsFinite(Entry(i)) /\ Entry(i)[1] >= 0
        /\ TotalOf(hfOut.val) = <<1, 1>>
        /\ TotalOf(CountTerms(Zeros(vecsize), HfTerms, vecsize, h)) = <<Len(HfTerms), 1>>

\* C1 witness: three tokens hashed into two buckets, two of them colliding,
\* one with a negative hash
Wit_C1_NormalisedHistogram ==
    /\ pc = "done"
    /\ ~words.isStr
    /\ Len(HfTerms) = 3
    /\ vecsize = 2
    /\ \E t \in Range(HfTerms) : h[t] < 0
    /\ Entry(1) = <<2, 3>>

\* C2: entry i is the number of tokens t with h(t) mod vecsize = i divided by the
\* number of tokens; when k tokens fall one each into k distinct buckets exactly
\* k entries are 1/k and all the others are 0.
Thm_C2_EntryIsBucketShare ==
    (pc = "done" /\ Len(HfTerms) > 0) =>
        /\ \A i \in 0..(vecsize - 1) :
               Entry(i) = Rat(Cardinality(PositionsIn(i)), Len(HfTerms))
        /\ (\A i \in 0..(vecsize - 1) : Cardinality(PositionsIn(i)) <= 1) =>
               LET k == Len(HfTerms)
                   nonzero == {i \in 0..(vecsize - 1) : Entry(i) # <<0, 1>>}
               IN  /\ Cardinality(nonzero) = k
                   /\ \A i \in nonzero : Entry(i) = <<1, k>>

\* C2 witness: four tokens, vecsize 8, four distinct buckets: four entries of
\* 0.25 and four entries of 0
Wit_C2_EntryIsBucketShare ==
    /\ pc = "done"
    /\ words = [isStr |-> FALSE, val |-> <<The, Quick, Brown, Fox>>]
    /\ vecsize = 8
    /\ Cardinality({i \in 0..7 : Entry(i) = <<1, 4>>}) = 4
    /\ Cardinality({i \in 0..7 : Entry(i) = <<0, 1>>}) = 4

\* C3 (as claimed): with an empty token sequence the call ends in a
\* division-by-zero error and returns no vector.
CE_C3_EmptyRaises ==
    (pc = "done" /\ Len(HfTerms) = 0) => hfOut.kind = "ZeroDivisionError"

\* C4: token sequences that are rearrangements of each other (the sequence
\* itself included) are encoded to the same vector.
Thm_C4_OrderIndependent ==
    pc = "done" =>
        \A s \in Rearrangements(HfTerms) :
            hashing_frequency(vecsize, h, [isStr |-> FALSE, val |-> s]) = hfOut

\* C4 witness: a sequence of three different tokens in three different buckets
Wit_C4_OrderIndependent ==
    /\ pc = "done"
    /\ Cardinality(Range(HfTerms)) >= 3
    /\ Cardinality({Bucket(t) : t \in Range(HfTerms)}) >= 3
    /\ Cardinality(Rearrangements(HfTerms)) >= 6

-----------------------------------------------------------------------------
(* Properties of the metrics *)

F1Called == f1Out.kind # "none"
FbetaCalled == fbetaOut.kind # "none"

\* no value of the list is the positive label
NoPositive(values) == \A i \in 1..Len(values) : values[i] # positive_label

\* C5: for actual and predicted values of equal length, true_positive +
\* false_negative is the number of actual positives and true_positive +
\* false_positive the number of predicted positives, where the three numbers the
\* scores compute are the true positives, the actual and the predicted positives.
Thm_C5_TallyTotals ==
    ((F1Called \/ FbetaCalled) /\ Len(actual_values) = Len(predicted_values)) =>
        LET tp == true_positives(actual_values, predicted_values, positive_label)
            ap == actual_positives(actual_values, positive_label)
            pp == predicted_positives(predicted_values, positive_label)
        IN  /\ tp = TruePositive(actual_values, predicted_values, positive_label)
            /\ tp + FalseNegative(actual_values, predicted_values, positive_label) = ap
            /\ tp + FalsePositive(actual_values, predicted_values, positive_label) = pp

\* C5 witness: a call on values with a false negative, a false positive and a
\* true positive
Wit_C5_TallyTotals ==
    /\ F1Called
    /\ Len(actual_values) = Len(predicted_values)
    /\ TruePositive(actual_values, predicted_values, positive_label) > 0
    /\ FalseNegative(actual_values, predicted_values, positive_label) > 0
    /\ FalsePositive(actual_values, predicted_values, positive_label) > 0

\* C7: whenever fbeta_score returns, its value F satisfies
\* F = (1 + beta^2) * P * R / (beta^2 * P + R) with P = true_positives /
\* predicted_positives and R = true_positives / actual_positives.
Thm_C7_FbetaFormula ==
    fbetaOut.kind = "return" =>
        LET tp == true_positives(actual_values, predicted_values, positive_label)
            ap == actual_positives(actual_values, positive_label)
            pp == predicted_positives(predicted_values, positive_label)
        IN  /\ pp > 0
            /\ ap > 0
            /\ LET P == Rat(tp, pp)
                   R == Rat(tp, ap)
                   b2 == RatMul(beta, beta)
                   denominator == RatAdd(RatMul(b2, P), R)
               IN  /\ denominator # <<0, 1>>
                   /\ RatMul(fbetaOut.val, denominator)
                          = RatMul(RatAdd(<<1, 1>>, b2), RatMul(P, R))

\* C7 witness: a returning call with beta = 2 and precision different from recall
Wit_C7_FbetaFormula ==
    /\ fbetaOut.kind = "return"
    /\ beta = <<2, 1>>
    /\ actual_positives(actual_values, positive_label)
           # predicted_positives(predicted_values, positive_label)

\* C8: f1_score and fbeta_score with beta = 1 have the same outcome: the same
\* value, or both fail.
Thm_C8_F1IsFbeta1 ==
    (F1Called /\ FbetaCalled /\ beta = <<1, 1>>) => f1Out = fbetaOut

\* C8 witness: both called with beta = 1 and both returned
Wit_C8_F1IsFbeta1 ==
    /\ beta = <<1, 1>>
    /\ f1Out.kind = "return"
    /\ fbetaOut.kind = "return"
    /\ f1Out.val # <<1, 1>>

\* C9: f1_score and fbeta_score end in a division-by-zero error whenever the
\* predicted values or the actual values hold no positive label.
Thm_C9_NoPositivesRaise ==
    (NoPositive(predicted_values) \/ NoPositive(actual_values)) =>
        /\ F1Called => f1Out = ZeroDivisionError
        /\ FbetaCalled => fbetaOut = ZeroDivisionError

\* C9 witness: both called on actual values with a positive and predicted
\* values with none
Wit_C9_NoPositivesRaise ==
    /\ F1Called
    /\ FbetaCalled
    /\ NoPositive(predicted_values)
    /\ ~NoPositive(actual_values)
    /\ Len(predicted_values) > 0
    /\ f1Out.kind = "ZeroDivisionError"
    /\ fbetaOut.kind = "ZeroDivisionError"

-----------------------------------------------------------------------------
(* Properties of model_accuracy and of OverfittingSpamModel *)

\* the labels of a data frame, and what the model predicts for its texts
LabelsOf(d) == [i \in 1..Len(d) |-> d[i].label]
PredictionsOf(m, d) == [i \in 1..Len(d) |-> predict(m, d[i].text)]

\* true_positive + true_negative of the model on df
AccurateRows ==
    TruePositive(LabelsOf(df), PredictionsOf(osm, df), "spam")
        + TrueNegative(LabelsOf(df), PredictionsOf(osm, df), "spam")

\* C6 (as claimed): model_accuracy returns (true_positive + true_negative) /
\* total, and 100 when df has no rows.
CE_C6_AccuracyIsFraction ==
    call.op = "model_accuracy" =>
        call.out = Return(IF Len(df) = 0 THEN <<100, 1>> ELSE Rat(AccurateRows, Len(df)))

\* C6 (amended): model_accuracy returns 100 * (true_positive + true_negative) /
\* total, the percentage of the rows whose label is what the model predicts for
\* their text, and 100 when df has no rows.
Thm_C6_AccuracyIsPercentage ==
    call.op = "model_accuracy" =>
        call.out = Return(IF Len(df) = 0 THEN <<100, 1>>
                          ELSE Rat(100 * AccurateRows, Len(df)))

\* C6 witness: a call on two rows of which the model gets one right
Wit_C6_AccuracyIsPercentage ==
    /\ call.op = "model_accuracy"
    /\ Len(df) = 2
    /\ AccurateRows = 1
    /\ call.out = Return(<<50, 1>>)

\* the rows given to fit whose text has the hash of t
StoredWithHashOf(t) == {r \in fitted : textHash[r.text] = textHash[t]}

\* C10: predict(text) returns a label under which a training text with the
\* hash of text was stored if there is one, and otherwise "legitimate" exactly
\* when len(text) is even and "spam" when it is odd.
Thm_C10_PredictLooksUpThenParity ==
    call.op = "predict" =>
        IF StoredWithHashOf(call.arg) # {}
        THEN \E r \in StoredWithHashOf(call.arg) : r.label = call.out
        ELSE call.out = (IF Len(call.arg) % 2 = 0 THEN "legitimate" ELSE "spam")

\* C10 witness: after a fit, a text of odd length stored as legitimate is
\* predicted legitimate
Wit_C10_PredictLooksUpThenParity ==
    /\ call.op = "predict"
    /\ Len(call.arg) % 2 = 1
    /\ StoredWithHashOf(call.arg) = {[label |-> "legitimate", text |-> call.arg]}
    /\ call.out = "legitimate"

-----------------------------------------------------------------------------
(* Accuracy of the OverfittingSpamModel on its own training set *)

\* the rows of S whose text hashes like the text of a row of S with the other label
ConflictingRows(S) ==
    {r \in S : \E q \in S : q.label # r.label /\ textHash[q.text] = textHash[r.text]}

\* the model was filled from exactly the rows of df and model_accuracy(osm, df) was called
AccuracyOnTrainingSet == call.op = "model_accuracy" /\ Range(df) = fitted

\* C11 as stated: for every training set, model_accuracy(fit(training), training)
\* is 100
CE_C11_TrainingAccuracyAlways100 ==
    AccuracyOnTrainingSet => call.out = Return(Float(100))

\* C11, amended: when no legitimate row and spam row of the training set have
\* texts with the same hash, the model fitted on the training set predicts the
\* training label of every training row and model_accuracy(model, training) is
\* 100; when two such rows exist the accuracy is below 100
Thm_C11_TrainingAccuracy100WithoutConflict ==
    AccuracyOnTrainingSet =>
        /\ osm = fit(NewModel, df)
        /\ IF ConflictingRows(fitted) = {}
           THEN /\ \A i \in 1..Len(df) : predict(osm, df[i].text) = df[i].label
                /\ call.out = Return(Float(100))
           ELSE /\ \E i \in 1..Len(df) : predict(osm, df[i].text) # df[i].label
                /\ call.out # Return(Float(100))

\* a two-row training set with both labels is scored 100 although the parity
\* fallback alone would mislabel one of its rows
Wit_C11_TrainingAccuracy100WithoutConflict ==
    /\ AccuracyOnTrainingSet
    /\ Len(df) = 2
    /\ df[1].label # df[2].label
    /\ ConflictingRows(fitted) = {}
    /\ \E i \in 1..2 : predict(NewModel, df[i].text) # df[i].label
    /\ call.out = Return(Float(100))

-----------------------------------------------------------------------------
(* Properties of the SensitiveSpamModel *)

\* the lower-cased non-empty pieces of a text
WordsOf(text) ==
    LET ws == ReSplit(text)
        NonEmpty(w) == Len(w) > 0
        kept == SelectSeq(ws, NonEmpty)
    IN  Entries([j \in 1..Len(kept) |-> Lower(kept[j])])

\* the word lists of the training rows
TrainingWordLists == Entries([i \in 1..Len(df) |-> WordsOf(df[i].text)])

\* the rows that are (legitimate = TRUE) or are not (legitimate = FALSE)
\* labelled "legitimate"
RowsOfSide(legitimate) == {i \in 1..Len(df) : (df[i].label = "legitimate") = legitimate}

\* the words of the rows of one side, given the word lists of the rows
WordsOfSide(lists, legitimate) == UNION {Range(lists[i]) : i \in RowsOfSide(legitimate)}

\* how often word w occurs in the rows of one side
RECURSIVE CountOnSide(_, _, _)
CountOnSide(lists, w, rows) ==
    IF rows = {} THEN 0
    ELSE LET i == CHOOSE i \in rows : TRUE
         IN  Cardinality({j \in 1..Len(lists[i]) : lists[i][j] = w})
             + CountOnSide(lists, w, rows \ {i})

\* the words that occur on one side of the training set only, each with the
\* number of its occurrences
ExclusiveCounts(lists, legitimate) ==
    [w \in WordsOfSide(lists, legitimate) \ WordsOfSide(lists, ~legitimate) |->
        CountOnSide(lists, w, RowsOfSide(legitimate))]

\* the vocabulary is made of words of the counted side, and no word of that
\* side that is left out was counted more often than a word that is kept
TopOf(vocabulary, counts) ==
    /\ vocabulary \subseteq DOMAIN counts
    /\ \A out \in DOMAIN counts \ vocabulary : \A kept \in vocabulary :
           counts[out] <= counts[kept]

\* C12: after ssm.fit(df) the legit and spam vocabularies are disjoint, every
\* legit word occurs (lower-cased) in 'legitimate' training texts only and
\* every spam word in the other texts only, legit has at most 100 and spam at
\* most 1000 words, and no class-exclusive word that was left out has a
\* strictly higher training count than a word that was kept
Thm_C12_FitKeepsTopExclusiveWords ==
    pc = "fitted" =>
        LET lists == TrainingWordLists
        IN  /\ ssm.legit \cap ssm.spam = {}
            /\ TopOf(ssm.legit, ExclusiveCounts(lists, TRUE))
            /\ TopOf(ssm.spam, ExclusiveCounts(lists, FALSE))
            /\ Cardinality(ssm.legit) <= LegitVocabularySize
            /\ Cardinality(ssm.spam) <= SpamVocabularySize

\* a fit that had to leave out a word that only legitimate texts have, kept
\* a word seen twice, and dropped a word that both sides have
Wit_C12_FitKeepsTopExclusiveWords ==
    /\ pc = "fitted"
    /\ Cardinality(ssm.legit) = LegitVocabularySize
    /\ ssm.spam # {}
    /\ LET counts == ExclusiveCounts(TrainingWordLists, TRUE)
       IN  /\ DOMAIN counts \ ssm.legit # {}
           /\ \E kept \in ssm.legit : counts[kept] = 2

\* how many pieces of the text of the last predict call are in a vocabulary
FoundIn(vocabulary) ==
    LET ws == ReSplit(call.arg)
    IN  Cardinality({j \in 1..Len(ws) : ws[j] \in vocabulary})

\* C13: ssm.predict returns 'legitimate' only when more words of the text are
\* found in the legit vocabulary than in the spam vocabulary; on a tie, also
\* when no word of the text is in either vocabulary, it returns 'spam'
Thm_C13_PredictLegitimateOnlyOnMajority ==
    call.op = "ssm.predict" =>
        /\ call.out \in Labels
        /\ call.out = "legitimate" <=> FoundIn(ssm.legit) > FoundIn(ssm.spam)
        /\ FoundIn(ssm.legit) = FoundIn(ssm.spam) => call.out = "spam"

\* a text with one legit word and one spam word is predicted 'spam'
Wit_C13_PredictLegitimateOnlyOnMajority ==
    /\ call.op = "ssm.predict"
    /\ FoundIn(ssm.legit) = 1
    /\ FoundIn(ssm.spam) = 1
    /\ call.out = "spam"

-----------------------------------------------------------------------------
(* The classifiers are read only outside fit *)

\* the calls that only read the classifier
ReadingCalls == {"predict", "ssm.predict", "model_accuracy", "true_and_predicted"}

\* the texts of the session
SessionTexts == IF OverfittingSession THEN Texts ELSE SsmTexts

\* C14: for both rule-based classifiers every call of predict, model_accuracy
\* and true_and_predicted leaves the legit and spam sets of the model as they
\* were, so every text keeps its label until the next fit
Thm_C14_PredictIsReadOnly ==
    [][ call'.op \in ReadingCalls =>
            /\ osm'.legit = osm.legit /\ osm'.spam = osm.spam
            /\ ssm'.legit = ssm.legit /\ ssm'.spam = ssm.spam
            /\ \A text \in SessionTexts :
                   predict_of(Subject', text) = predict_of(Subject, text) ]_vars

\* a fitted OverfittingSpamModel that holds hashes on both sides was evaluated
Wit_C14_PredictIsReadOnly ==
    /\ call.op = "true_and_predicted"
    /\ osm.legit # {}
    /\ osm.spam # {}
    /\ Len(call.out[2]) >= 2

-----------------------------------------------------------------------------
(* Accuracy of a classifier that always answers spam *)

\* the classifier answers spam for every text
AlwaysSpam(m) == \A text \in SsmTexts : predict_of(m, text) = "spam"

\* the number of rows of df with the label
RowsLabelled(label) == Cardinality({i \in 1..Len(df) : df[i].label = label})

\* C15: for a classifier that returns 'spam' for every input, model_accuracy
\* on a non-empty set of s spam rows and l legitimate rows is 100 * s / (s + l);
\* on the sample of 18000 spam rows and 2000 legitimate rows it is 90
Thm_C15_AlwaysSpamAccuracy ==
    (call.op = "model_accuracy" /\ Len(df) > 0 /\ AlwaysSpam(ssm)) =>
        LET s == RowsLabelled("spam")
            l == RowsLabelled("legitimate")
        IN  /\ call.out = Return(Rat(100 * s, s + l))
            /\ (s = SpamSampleSize /\ l = LegitSampleSize) => call.out = Return(Float(90))

\* the new SensitiveSpamModel, which answers spam for every text, was scored
\* on the unbalanced sample
Wit_C15_AlwaysSpamAccuracy ==
    /\ call.op = "model_accuracy"
    /\ AlwaysSpam(ssm)
    /\ RowsLabelled("spam") = SpamSampleSize
    /\ RowsLabelled("legitimate") = LegitSampleSize
    /\ call.out = Return(Float(90))

-----------------------------------------------------------------------------
(* The F1 score from the four tallies *)

\* the values of the worked example: three spam messages and a legitimate one,
\* the second spam message predicted legitimate
ExampleActual == <<"spam", "spam", "legitimate", "spam">>
ExamplePredicted == <<"spam", "legitimate", "legitimate", "spam">>

\* C16: for the actual values [spam, spam, legitimate, spam], the predicted
\* values [spam, legitimate, legitimate, spam] and the positive label spam the
\* tallies are TP = 2, FN = 1, FP = 0, TN = 1, precision is 1, recall 2/3 and
\* f1_score 4/5; on every two lists of equal length, a value that f1_score
\* returns is 2 * TP / (2 * TP + FP + FN)
Thm_C16_F1FromTallies ==
    LET TP == TruePositive(actual_values, predicted_values, positive_label)
        TN == TrueNegative(actual_values, predicted_values, positive_label)
        FP == FalsePositive(actual_values, predicted_values, positive_label)
        FN == FalseNegative(actual_values, predicted_values, positive_label)
    IN  /\ (f1Out.kind = "return" /\ Len(actual_values) = Len(predicted_values)) =>
               f1Out.val = Rat(2 * TP, 2 * TP + FP + FN)
        /\ ( /\ F1Called
             /\ actual_values = ExampleActual
             /\ predicted_values = ExamplePredicted
             /\ positive_label = "spam" ) =>
               /\ TP = 2 /\ FN = 1 /\ FP = 0 /\ TN = 1
               /\ true_positives(actual_values, predicted_values, positive_label) = 2
               /\ predicted_positives(predicted_values, positive_label) = 2
               /\ actual_positives(actual_values, positive_label) = 3
               /\ f1Out = Return(<<4, 5>>)

\* f1_score was called on the worked example and returned 4/5
Wit_C16_F1FromTallies ==
    /\ actual_values = ExampleActual
    /\ predicted_values = ExamplePredicted
    /\ positive_label = "spam"
    /\ f1Out = Return(<<4, 5>>)

\* x <= y and x < y for two fractions with positive denominators
RatLeq(x, y) == x[1] * y[2] <= y[1] * x[2]
RatLess(x, y) == x[1] * y[2] < y[1] * x[2]

\* precision and recall of the values of this state, as fbeta_score computes them
PrecisionNow ==
    RatDiv(Float(true_positives(actual_values, predicted_values, positive_label)),
           Float(predicted_positives(predicted_values, positive_label)))
RecallNow ==
    RatDiv(Float(true_positives(actual_values, predicted_values, positive_label)),
           Float(actual_positives(actual_values, positive_label)))

\* the result of fbeta_score on the values of this state with another beta
FbetaWith(b) == fbeta_score(actual_values, predicted_values, b, positive_label)

Thm_C19_SharedShingleSharedBucket ==
    pc = "encoded" =>
        \A i \in 1..Len(data), j \in 1..Len(data) :
            \A s \in Range(data[i].shingles) \cap Range(data[j].shingles) :
                LET bucket == (h[s] % vecsize) + 1
                IN  /\ a_vectors[i][bucket][1] > 0 /\ a_vectors[i][bucket][2] > 0
                    /\ a_vectors[j][bucket][1] > 0 /\ a_vectors[j][bucket][2] > 0

\* two different documents that share a shingle and have one each of their own
\* were encoded into more than one bucket
Wit_C19_SharedShingleSharedBucket ==
    /\ pc = "encoded"
    /\ vecsize > 1
    /\ data[1].text # data[2].text
    /\ Range(data[1].shingles) \cap Range(data[2].shingles) # {}
    /\ Range(data[1].shingles) \ Range(data[2].shingles) # {}
    /\ Range(data[2].shingles) \ Range(data[1].shingles) # {}
    /\ a_vectors[1] # a_vectors[2]

\* C20: on every list of terms that is not empty, the vector hashing_frequency
\* returns (count into buckets, then divide by the total) is the vector of the
\* order the notebook describes (count each distinct shingle, turn the counts
\* into frequencies, add each frequency into the bucket of its shingle)
Thm_C20_ActualOrderIsLogicalOrder ==
    (pc = "done" /\ Len(Terms(words)) > 0) =>
        /\ hfOut.kind = "return"
        /\ \A i \in 1..vecsize :
               hfOut.val[i] = LogicalEncoding(vecsize, h, Terms(words))[i]
        /\ Len(hfOut.val) = vecsize

\* hf returned on a list in which a term occurs twice and two terms share a bucket
Wit_C20_ActualOrderIsLogicalOrder ==
    /\ hfOut.kind = "return"
    /\ ~words.isStr
    /\ Len(words.val) = 3
    /\ Cardinality(Range(words.val)) = 2
    /\ \E i \in 1..vecsize : hfOut.val[i] = Float(1)
    /\ vecsize > 1

\* C21: doc2shingles(k)(doc) is the list of the substrings of doc of length k
\* in the order of their start: shingle i is doc[i:i+k], there are
\* len(doc) - k + 1 of them when len(doc) >= k and none when len(doc) < k; the
\* 43 characters of the example give 40 shingles for k = 4
Thm_C21_ShinglesAreTheSubstrings ==
    call.op = "doc2shingles" =>
        LET k == call.arg.k
            doc == call.arg.doc
            out == call.out
        IN  /\ Len(doc) >= k => Len(out) = Len(doc) - k + 1
            /\ Len(doc) < k => Len(out) = 0
            /\ \A i \in 1..Len(out) :
                   /\ Len(out[i]) = k
                   /\ \A j \in 1..k : out[i][j] = doc[i + j - 1]
            /\ (doc = QuickBrownFox /\ k = 4) =>
                   /\ Len(doc) = 43
                   /\ Len(out) = 40
                   /\ out[1] = <<"t", "h", "e", " ">>
                   /\ out[2] = <<"h", "e", " ", "q">>
                   /\ out[40] = <<" ", "d", "o", "g">>

\* doc2shingles(4) was called on the example and returned its 40 shingles
Wit_C21_ShinglesAreTheSubstrings ==
    /\ call.op = "doc2shingles"
    /\ call.arg.doc = QuickBrownFox
    /\ call.arg.k = 4
    /\ Len(call.out) = 40

\* the lengths of the words of txt, one entry for each word: a word is a run of
\* word characters with no word character before it and none behind it
WordStarts(txt) ==
    {p \in 1..Len(txt) : IsWordChar(txt[p]) /\ (p = 1 \/ ~IsWordChar(txt[p - 1]))}

WordLength(txt, p) ==
    LET ends == {e \in p..Len(txt) :
                    /\ \A q \in p..e : IsWordChar(txt[q])
                    /\ (e = Len(txt) \/ ~IsWordChar(txt[e + 1]))}
    IN  (CHOOSE e \in ends : TRUE) - p + 1

\* C22: count_existence(txt, MAX_LEN) has MAX_LEN + 1 entries, each 0.0 or 1.0;
\* entry i is 1.0 exactly when txt has a word of length i, a longer word than
\* MAX_LEN counting as one of length MAX_LEN; for "Bob ate chips" only the
\* entries 3 and 5 are 1.0
CE_C22_ExistenceOfWordLengths ==
    call.op = "count_existence" =>
        LET txt == call.arg.txt
            MAX_LEN == call.arg.MAX_LEN
            out == call.out
        IN  /\ Len(out) = MAX_LEN + 1
            /\ \A i \in 0..MAX_LEN :
                   /\ out[i + 1] \in {Float(0), Float(1)}
                   /\ out[i + 1] = Float(1) <=>
                          \E p \in WordStarts(txt) : Min(WordLength(txt, p), MAX_LEN) = i
            /\ (txt = BobAteChips /\ MAX_LEN = ExistenceMaxLen) =>
                   {i \in 0..MAX_LEN : out[i + 1] = Float(1)} = {3, 5}

\* C23: count_frequency(txt, MAX_LEN) has MAX_LEN + 1 entries; entry i is the
\* number of words of txt of length i (entry MAX_LEN takes the longer words
\* too), so that the entries sum to the number of words of txt
CE_C23_FrequencyOfWordLengths ==
    call.op = "count_frequency" =>
        LET txt == call.arg.txt
            MAX_LEN == call.arg.MAX_LEN
            out == call.out
        IN  /\ Len(out) = MAX_LEN + 1
            /\ \A i \in 0..MAX_LEN :
                   out[i + 1] = Float(Cardinality(
                       {p \in WordStarts(txt) : Min(WordLength(txt, p), MAX_LEN) = i}))
            /\ Sum(out) = Float(Cardinality(WordStarts(txt)))

\* C24: the split of the drift notebook (random_state=43) has the same training
\* documents and the same testing documents as the split on which the saved
\* model was fitted in the model-training notebook
CE_C24_DriftSplitIsTrainingSplit ==
    (train # NoValue /\ df_train # NoValue) =>
        /\ {train[i].index : i \in 1..Len(train)} =
               {df_train[i].index : i \in 1..Len(df_train)}
        /\ {test[i].index : i \in 1..Len(test)} =
               {df_test[i].index : i \in 1..Len(df_test)}

\* C25: caps(word) is true exactly of the words with an upper-case letter in
\* them, so that the upper_case summary of a document is the number of its words
\* that have an upper-case letter in them
CE_C25_CapsIsHasUpperCase ==
    LET HasUpper(word) == \E i \in 1..Len(word) : word[i] \in UpperChars
    IN  /\ call.op = "caps" => (call.out <=> HasUpper(call.arg))
        /\ call.op = "upper_case" =>
               LET doc == strip_punct(call.arg)[1]
                   starts == {p \in 1..Len(doc) :
                                 /\ doc[p] \notin WhiteChars
                                 /\ (p = 1 \/ doc[p - 1] \in WhiteChars)}
                   UpperIn(p) == \E q \in p..Len(doc) :
                                     /\ doc[q] \in UpperChars
                                     /\ \A r \in p..q : doc[r] \notin WhiteChars
               IN  call.out = Float(Cardinality({p \in starts : UpperIn(p)}))

\* C26: f1_score and fbeta_score return a value only when there is a true
\* positive; without one the call ends in a division-by-zero error, also when
\* the actual and the predicted values both hold the positive label; a value
\* that f1_score returns is above 0 and at most 1
Thm_C26_ReturnOnlyWithTruePositive ==
    LET TP == TruePositive(actual_values, predicted_values, positive_label)
    IN  /\ f1Out.kind = "return" => TP > 0
        /\ fbetaOut.kind = "return" => TP > 0
        /\ (F1Called /\ TP = 0) => f1Out = ZeroDivisionError
        /\ (FbetaCalled /\ TP = 0) => fbetaOut = ZeroDivisionError
        /\ f1Out.kind = "return" =>
               /\ RatLess(Float(0), f1Out.val)
               /\ RatLeq(f1Out.val, Float(1))

\* both scores were called on values that hold the positive label on both sides
\* but never at the same place, and both calls ended in the error
Wit_C26_ReturnOnlyWithTruePositive ==
    /\ positive_label \in Range(actual_values)
    /\ positive_label \in Range(predicted_values)
    /\ Len(actual_values) = Len(predicted_values)
    /\ TruePositive(actual_values, predicted_values, positive_label) = 0
    /\ f1Out = ZeroDivisionError
    /\ fbetaOut = ZeroDivisionError

\* C27: ssm.predict looks the words up without regard to their case, as fit
\* stores them in lower case: predict(text) is predict(text.lower()) for every
\* fitted model and every text
CE_C27_PredictIgnoresCase ==
    (pc = "fitted" /\ call.op = "ssm.predict") =>
        call.out = SensitiveSpamModel_predict(ssm, Lower(call.arg))

\* C28: over the calls of fit and predict on one model the legit and spam sets
\* never lose a hash; every text of every frame that was fitted is found in the
\* set of its label; and a text fitted under both labels is predicted
\* 'legitimate'
Thm_C28_FitOnlyAdds ==
    /\ [][osm.legit \subseteq osm'.legit /\ osm.spam \subseteq osm'.spam]_vars
    /\ [](\A r \in fitted :
             /\ r.label = "legitimate" => hash(r.text) \in osm.legit
             /\ r.label = "spam" => hash(r.text) \in osm.spam)
    /\ [](\A r \in fitted, q \in fitted :
             (r.text = q.text /\ r.label # q.label) =>
                 /\ predict(osm, r.text) = "legitimate"
                 /\ (call.op = "predict" /\ call.arg = r.text) =>
                        call.out = "legitimate")

\* more rows than one frame holds were fitted, one text among them under both
\* labels, and predict was called on that text
Wit_C28_FitOnlyAdds ==
    /\ Cardinality(fitted) > MaxRows
    /\ call.op = "predict"
    /\ [label |-> "legitimate", text |-> call.arg] \in fitted
    /\ [label |-> "spam", text |-> call.arg] \in fitted
    /\ call.out = "legitimate"

=============================================================================
